---------------------------- MODULE Spec2Model ----------------------------
(***************************************************************************)
(* State-machine model of the activity acquisition layer of                *)
(* garmin_client.py: range validation, init_api (session reuse / fresh     *)
(* login), the offset/limit range fetcher                                  *)
(* _fetch_activities_in_range_via_paging, the type filter and the typed    *)
(* models built by parse_activity_summary.                                 *)
(*                                                                         *)
(* Conventions                                                             *)
(*  - Python's None / Optional[x] is the empty / one-element sequence.     *)
(*  - A Python str is the sequence of its code points, so that str         *)
(*    comparison is the lexicographic comparison Python performs.          *)
(*  - A datetime.date is the triple <<year, month, day>>.                  *)
(*  - A float is counted in thousandths, with the side of the decimal on   *)
(*    which its binary value lies.                                         *)
(***************************************************************************)
EXTENDS Integers, Sequences, FiniteSets, TLC

\* Largest number of records the provider holds.
MaxData == 3

\* garmin_client.py:233  (page_size > 200 is rejected)
MaxPageSize == 200

\* garmin_client.py:216  (default page_size of the fetcher and the public call)
DefaultPageSize == 50

None == <<>>
Some(x) == <<x>>

Min(a, b) == IF a <= b THEN a ELSE b

(***************************************************************************)
(* Dates and ISO strings                                                   *)
(***************************************************************************)

\* The calendar dates used by the model: around a year change, and 9 / 10
\* January so that zero padding matters to string comparison.
D0 == <<2024, 12, 31>>
D1 == <<2025, 1, 9>>
D2 == <<2025, 1, 10>>
D3 == <<2025, 2, 1>>

Dates == {D0, D1, D2, D3}

\* datetime.date ordering
DateLT(a, b) ==
    \/ a[1] < b[1]
    \/ a[1] = b[1] /\ a[2] < b[2]
    \/ a[1] = b[1] /\ a[2] = b[2] /\ a[3] < b[3]

DateLE(a, b) == a = b \/ DateLT(a, b)

\* Python str ordering: lexicographic on code points, a proper prefix is smaller.
StrLT(s, t) ==
    \/ \E i \in 1..Min(Len(s), Len(t)) :
          /\ \A j \in 1..(i - 1) : s[j] = t[j]
          /\ s[i] < t[i]
    \/ /\ Len(s) < Len(t)
       /\ \A j \in 1..Len(s) : s[j] = t[j]

StrGT(s, t) == StrLT(t, s)

DigitChar(n) == 48 + n
DashStr == <<45>>
IsDigitChar(c) == c >= 48 /\ c <= 57

Pow10(k) == IF k = 0 THEN 1 ELSE IF k = 1 THEN 10 ELSE IF k = 2 THEN 100 ELSE 1000

\* n written with exactly w digits, zero padded
Pad(n, w) == [i \in 1..w |-> DigitChar((n \div Pow10(w - i)) % 10)]

\* n written without padding (n < 100)
Unpadded(n) == IF n < 10 THEN <<DigitChar(n)>> ELSE Pad(n, 2)

\* date.isoformat(): YYYY-MM-DD
isoformat(d) == Pad(d[1], 4) \o DashStr \o Pad(d[2], 2) \o DashStr \o Pad(d[3], 2)

\* the same date written the way strptime also accepts, without zero padding
LooseFormat(d) ==
    Pad(d[1], 4) \o DashStr \o Unpadded(d[2]) \o DashStr \o Unpadded(d[3])

RECURSIVE NumOf(_)
NumOf(s) == IF s = <<>> THEN 0 ELSE 10 * NumOf(SubSeq(s, 1, Len(s) - 1)) + (s[Len(s)] - 48)

IsLeap(y) == (y % 4 = 0 /\ y % 100 # 0) \/ y % 400 = 0

DaysInMonth(y, m) ==
    IF m = 2 THEN (IF IsLeap(y) THEN 29 ELSE 28)
    ELSE IF m \in {4, 6, 9, 11} THEN 30 ELSE 31

\* datetime.strptime(text, "%Y-%m-%d").date(): Some(date), or None for ValueError.
\* %Y is exactly four digits, %m and %d are one or two digits.
strptime_ymd(text) ==
    LET dashes == {i \in 1..Len(text) : text[i] = 45}
    IN  IF Cardinality(dashes) # 2 THEN None
        ELSE
          LET p1 == CHOOSE i \in dashes : \A j \in dashes : i <= j
              p2 == CHOOSE i \in dashes : \A j \in dashes : j <= i
              ys == SubSeq(text, 1, p1 - 1)
              ms == SubSeq(text, p1 + 1, p2 - 1)
              ds == SubSeq(text, p2 + 1, Len(text))
              digits == \A i \in (1..Len(text)) \ dashes : IsDigitChar(text[i])
          IN  IF /\ digits
                 /\ Len(ys) = 4
                 /\ Len(ms) \in {1, 2}
                 /\ Len(ds) \in {1, 2}
                 /\ NumOf(ms) \in 1..12
                 /\ NumOf(ds) \in 1..DaysInMonth(NumOf(ys), NumOf(ms))
              THEN Some(<<NumOf(ys), NumOf(ms), NumOf(ds)>>)
              ELSE None


(***************************************************************************)
(* Raw activity records                                                    *)
(*                                                                         *)
(* A raw record is the provider's dict.  Its identity (the dict object) is *)
(* the field obj.  startTimeLocal is described by the form of its text:    *)
(*   "missing"  the key is absent or its value is not a str                *)
(*   "space19"  "YYYY-MM-DD HH:MM:SS" followed by anything                 *)
(*   "T19"      "YYYY-MM-DDTHH:MM:SS" followed by anything                 *)
(*   "iso"      any other text datetime.fromisoformat accepts              *)
(*   "garbage"  a str none of the three parsers accepts                    *)
(* and by the calendar date the text spells.  beginTimestamp is            *)
(*   "missing"  absent or None                                             *)
(*   "text"     a value that is neither int nor float                      *)
(*   "ms"       epoch milliseconds of an instant on the UTC date given     *)
(*   "overflow" a number too large for a float or for the platform time    *)
(*   "nan"      the float nan                                              *)
(*   "platform" a number the platform's time functions refuse              *)
(***************************************************************************)

NoStl == [form |-> "missing", date |-> D0]
NoTs == [kind |-> "missing", date |-> D0]

Stl(form, d) == [form |-> form, date |-> d]
Ms(d) == [kind |-> "ms", date |-> d]

\* The timestamp encodings a provider record is drawn from.
Stamps ==
    { [stl |-> Stl("space19", D0), ts |-> NoTs],
      [stl |-> Stl("space19", D2), ts |-> Ms(D1)],
      [stl |-> Stl("T19", D1), ts |-> NoTs],
      [stl |-> Stl("iso", D3), ts |-> NoTs],
      [stl |-> NoStl, ts |-> Ms(D1)],
      [stl |-> Stl("garbage", D2), ts |-> Ms(D2)] }

MkData(f) ==
    [i \in DOMAIN f |->
        [obj |-> i, startTimeLocal |-> f[i].stl, beginTimestamp |-> f[i].ts]]

\* Every provider content of at most MaxData records.
DataSets == UNION {{MkData(f) : f \in [1..n -> Stamps]} : n \in 0..MaxData}

\* the outcome of a parser: the date, or the exception it raises
Parsed_date(d) == [err |-> None, date |-> Some(d)]
Parse_error(e) == [err |-> Some(e), date |-> None]
No_date == [err |-> None, date |-> None]

\* line 130: datetime.strptime(stl[:19], fmt).date(), fmt named by the form
\* of the texts it accepts
strptime19(stl, fmt) ==
    IF stl.form = fmt THEN Parsed_date(stl.date) ELSE Parse_error("ValueError")

\* line 135: datetime.fromisoformat(stl).date(), on a text that both fixed
\* patterns refused
fromisoformat(stl) ==
    IF stl.form = "iso" THEN Parsed_date(stl.date) ELSE Parse_error("ValueError")

\* line 142: datetime.fromtimestamp(float(ts) / 1000.0, tz=timezone.utc).date()
fromtimestamp(ts) ==
    CASE ts.kind = "ms" -> Parsed_date(ts.date)
      [] ts.kind = "overflow" -> Parse_error("OverflowError")
      [] ts.kind = "nan" -> Parse_error("ValueError")
      [] OTHER -> Parse_error("OSError")

\* line 143: except (OverflowError, OSError, ValueError)
TimestampCaught_onlyValueError(x) == x = "ValueError"
TimestampCaught(x) == x \in {"OverflowError", "OSError", "ValueError"}

\* lines 125-147, with the exception that would leave the function.  A str
\* startTimeLocal decides alone: the numeric field is read only when the
\* value is not a str.
DateOutcome(act) ==
    LET stl == act.startTimeLocal
        ts == act.beginTimestamp
    IN  IF stl.form # "missing"
        THEN IF strptime19(stl, "space19").err = None THEN strptime19(stl, "space19")
             ELSE IF strptime19(stl, "T19").err = None THEN strptime19(stl, "T19")
             ELSE IF fromisoformat(stl).err = None THEN fromisoformat(stl)
             ELSE IF fromisoformat(stl).err = Some("ValueError") THEN No_date
             ELSE fromisoformat(stl)
        ELSE IF ts.kind \in {"ms", "overflow", "nan", "platform"}
        THEN IF fromtimestamp(ts).err = None THEN fromtimestamp(ts)
             ELSE IF TimestampCaught(fromtimestamp(ts).err[1]) THEN No_date
             ELSE fromtimestamp(ts)
        ELSE No_date

\* _parse_activity_date_local: Some(date) or None
_parse_activity_date_local(act) == DateOutcome(act).date

(***************************************************************************)
(* Python values held by the fields of a summary                           *)
(*                                                                         *)
(* A value is a record: t its type, n its number, b its bias, s its text.  *)
(*   "absent"  the key is not in the dict                                  *)
(*   "none"    None                                                        *)
(*   "bool"    n = 1 for True, 0 for False                                 *)
(*   "int"     n the integer                                               *)
(*   "float"   the number n/1000 + b*eps, eps positive and smaller than    *)
(*             any distance the model measures: b = 0 when the float is    *)
(*             the decimal n/1000 itself, b = -1 (b = 1) when it lies just *)
(*             below (above) it, as 2.675 does in binary                   *)
(*   "str"     s the text, a sequence of code points                       *)
(*   "list"    a container                                                 *)
(***************************************************************************)
PyVal(t, n, b, s) == [t |-> t, n |-> n, b |-> b, s |-> s]
Absent == PyVal("absent", 0, 0, <<>>)
PyNone == PyVal("none", 0, 0, <<>>)
PyBool(x) == PyVal("bool", IF x THEN 1 ELSE 0, 0, <<>>)
PyInt(n) == PyVal("int", n, 0, <<>>)
PyFloat(n, b) == PyVal("float", n, b, <<>>)
PyStr(s) == PyVal("str", 0, 0, s)
PyList == PyVal("list", 0, 0, <<>>)

\* dict.get(key): None for a key that is absent
Get(v) == IF v = Absent THEN PyNone ELSE v

\* truth value of a Python value
Truthy(v) ==
    CASE v.t \in {"absent", "none"} -> FALSE
      [] v.t \in {"bool", "int"} -> v.n # 0
      [] v.t = "float" -> v.n # 0 \/ v.b # 0
      [] v.t = "str" -> v.s # <<>>
      [] OTHER -> TRUE

\* a or b
Or(a, b) == IF Truthy(a) THEN a ELSE b

str_road_biking == <<114, 111, 97, 100, 95, 98, 105, 107, 105, 110, 103>>
str_virtual_ride == <<118, 105, 114, 116, 117, 97, 108, 95, 114, 105, 100, 101>>
str_cycling == <<99, 121, 99, 108, 105, 110, 103>>
str_biking == <<98, 105, 107, 105, 110, 103>>
str_running == <<114, 117, 110, 110, 105, 110, 103>>
str_lap_swimming == <<108, 97, 112, 95, 115, 119, 105, 109, 109, 105, 110, 103>>
str_swimming == <<115, 119, 105, 109, 109, 105, 110, 103>>
str_open_water_swimming == <<111, 112, 101, 110, 95, 119, 97, 116, 101, 114, 95, 115, 119, 105, 109, 109, 105, 110, 103>>
str_unknown == <<117, 110, 107, 110, 111, 119, 110>>
str_True == <<84, 114, 117, 101>>
str_False == <<70, 97, 108, 115, 101>>

IsSpace(c) == c \in {9, 10, 11, 12, 13, 32}

RECURSIVE lstrip(_)
lstrip(s) == IF s # <<>> /\ IsSpace(Head(s)) THEN lstrip(Tail(s)) ELSE s

RECURSIVE rstrip(_)
rstrip(s) ==
    IF s # <<>> /\ IsSpace(s[Len(s)]) THEN rstrip(SubSeq(s, 1, Len(s) - 1)) ELSE s

\* str.strip()
strip(s) == rstrip(lstrip(s))

\* str.lower(), on ASCII letters
lower(s) == [i \in 1..Len(s) |-> IF s[i] \in 65..90 THEN s[i] + 32 ELSE s[i]]

RECURSIVE Digits(_)
Digits(n) == IF n < 10 THEN <<DigitChar(n)>> ELSE Append(Digits(n \div 10), DigitChar(n % 10))

\* str(v), for the values a type descriptor holds: a str is itself, an int
\* its decimal digits, a bool its name
py_str(v) ==
    CASE v.t = "str" -> v.s
      [] v.t = "int" -> IF v.n < 0 THEN <<45>> \o Digits(-v.n) ELSE Digits(v.n)
      [] v.t = "bool" -> IF v.n = 1 THEN str_True ELSE str_False
      [] OTHER -> <<>>

\* int(v): [err, n].  None and containers are a TypeError; a str must be,
\* once stripped, an optional sign and decimal digits; a float is truncated
\* towards zero.
py_int(v) ==
    CASE v.t \in {"int", "bool"} -> [err |-> None, n |-> v.n]
      [] v.t = "float" ->
            [err |-> None,
             n |-> IF v.n > 0
                   THEN (IF v.n % 1000 = 0 /\ v.b < 0
                         THEN v.n \div 1000 - 1 ELSE v.n \div 1000)
                   ELSE IF v.n < 0
                   THEN (IF (-v.n) % 1000 = 0 /\ v.b > 0
                         THEN -((-v.n) \div 1000 - 1) ELSE -((-v.n) \div 1000))
                   ELSE 0]
      [] v.t = "str" ->
            LET text == strip(v.s)
                signed == text # <<>> /\ Head(text) \in {43, 45}
                ds == IF signed THEN Tail(text) ELSE text
            IN  IF ds # <<>> /\ \A i \in 1..Len(ds) : IsDigitChar(ds[i])
                THEN [err |-> None,
                      n |-> IF signed /\ Head(text) = 45 THEN -NumOf(ds) ELSE NumOf(ds)]
                ELSE [err |-> Some("ValueError:activityId"), n |-> 0]
      [] OTHER -> [err |-> Some("TypeError:activityId"), n |-> 0]

\* round(x, 2) on thousandths: the nearest hundredth; a value midway goes
\* where the float actually lies, and to the even hundredth when it is
\* exactly midway
RoundHundredths(n, b) ==
    LET q == n \div 10
        r == n % 10
        up == r > 5 \/ (r = 5 /\ (b > 0 \/ (b = 0 /\ q % 2 = 1)))
    IN  IF r = 0 THEN n ELSE IF up THEN 10 * (q + 1) ELSE 10 * q

\* lines 88-94
_round2_boolAsInt(value) ==
    IF value.t \in {"bool", "int"} THEN PyFloat(1000 * value.n, 0)
    ELSE IF value.t = "float" THEN PyFloat(RoundHundredths(value.n, value.b), 0)
    ELSE value

_round2_addHalf(value) ==
    IF value.t = "bool" THEN value
    ELSE IF value.t = "int" THEN PyFloat(RoundHundredths(1000 * value.n + 5, 0), 0)
    ELSE IF value.t = "float" THEN PyFloat(RoundHundredths(value.n + 5, value.b), 0)
    ELSE value

_round2(value) ==
    IF value.t = "bool" THEN value
    ELSE IF value.t = "int" THEN PyFloat(1000 * value.n, 0)
    ELSE IF value.t = "float" THEN PyFloat(RoundHundredths(value.n, value.b), 0)
    ELSE value

(***************************************************************************)
(* Summaries                                                               *)
(*                                                                         *)
(* The fields of a raw record the typed models read: activityId,           *)
(* activityType, distance (one of _NUMERIC_COMMON_KEYS) and endLatitude    *)
(* (rounded for cycling only).  activityType is a value, or a descriptor   *)
(* dict with the three keys typeKey, typeName, typeId.                     *)
(***************************************************************************)
Descriptor(k, nm, id) == [t |-> "dict", typeKey |-> k, typeName |-> nm, typeId |-> id]

\* dict(d): a new dict with the same items; -i is a copy of object i
Copy(d) == [d EXCEPT !.obj = IF d.obj > 0 THEN -d.obj ELSE d.obj]

\* lines 97-104
_get_type_key_firstPresent(activity) ==
    LET at == Get(activity.activityType)
    IN  IF at.t = "dict"
        THEN LET v == IF at.typeKey # Absent THEN at.typeKey
                      ELSE IF at.typeName # Absent THEN at.typeName
                      ELSE Get(at.typeId)
             IN  IF v # PyNone THEN Some(py_str(v)) ELSE None
        ELSE IF at.t = "str" THEN Some(at.s)
        ELSE None

_get_type_key(activity) ==
    LET at == Get(activity.activityType)
    IN  IF at.t = "dict"
        THEN LET v == Or(Or(Get(at.typeKey), Get(at.typeName)), Get(at.typeId))
             IN  IF v # PyNone THEN Some(py_str(v)) ELSE None
        ELSE IF at.t = "str" THEN Some(at.s)
        ELSE None

\* k or default, for an optional str k
StrOr(k, default) == IF k = None \/ k[1] = <<>> THEN default ELSE k[1]

\* lines 286-302, of the fields modelled
_NUMERIC_COMMON_KEYS == {"distance"}

\* lines 424-432, of the fields modelled
CyclingKeys == _NUMERIC_COMMON_KEYS \cup {"endLatitude"}

\* lines 112-114
NormalizedField(dct, keys, k) ==
    IF k \in keys /\ dct[k] # Absent THEN _round2(dct[k]) ELSE dct[k]

\* lines 107-115: a copy of dct with the listed keys that are present rounded
_normalize_numeric_fields_inPlace(dct, keys) ==
    [dct EXCEPT !.distance = NormalizedField(dct, keys, "distance"),
                !.endLatitude = NormalizedField(dct, keys, "endLatitude")]
_normalize_numeric_fields(dct, keys) ==
    [Copy(dct) EXCEPT !.distance = NormalizedField(dct, keys, "distance"),
                      !.endLatitude = NormalizedField(dct, keys, "endLatitude")]

Variants ==
    {"CyclingActivitySummary", "RunningActivitySummary", "SwimmingActivitySummary",
     "GenericActivitySummary"}

\* the outcome of building a typed record: the record, or the exception
Built(obj) == [err |-> None, obj |-> obj]
Failed(e) == [err |-> e, obj |-> <<>>]

\* line 367
ActivityId_orZero(s) ==
    IF py_int(Get(s.activityId)).err # None THEN [err |-> None, n |-> 0]
    ELSE py_int(Get(s.activityId))
ActivityId(s) == py_int(Get(s.activityId))

\* line 368
TypeKeyOf(s) == StrOr(_get_type_key(s), str_unknown)

\* lines 370-371: g(key) is s.get(key), None for a key that is missing
g_orZero(s, key) == IF s[key] = Absent THEN PyFloat(0, 0) ELSE s[key]
g(s, key) == Get(s[key])

\* lines 364-398: ActivitySummaryBase.from_summary, called on class cls
Base_from_summary(cls, summary) ==
    LET s == _normalize_numeric_fields(Copy(summary), _NUMERIC_COMMON_KEYS)
        activity_id == ActivityId(s)
    IN  IF activity_id.err # None THEN Failed(activity_id.err)
        ELSE Built([variant |-> cls,
                    activity_id |-> activity_id.n,
                    type_key |-> TypeKeyOf(s),
                    begin_timestamp |-> s.beginTimestamp,
                    distance |-> g(s, "distance"),
                    end_latitude |-> Absent,
                    raw |-> Copy(s)])

\* lines 420-443: CyclingActivitySummary.from_summary
Cycling_from_summary(summary) ==
    LET s == _normalize_numeric_fields(Copy(summary), CyclingKeys)
        base == Base_from_summary("ActivitySummaryBase", s)
    IN  IF base.err # None THEN base
        ELSE Built([base.obj EXCEPT !.variant = "CyclingActivitySummary",
                                    !.end_latitude = Get(s.endLatitude),
                                    !.raw = Copy(s)])

\* lines 458-524: the running and swimming models round the common keys and
\* their own, none of which is a field modelled here; the generic model is
\* the base constructor
Other_from_summary(cls, summary) ==
    IF cls = "GenericActivitySummary" THEN Base_from_summary(cls, summary)
    ELSE LET s == _normalize_numeric_fields(Copy(summary), _NUMERIC_COMMON_KEYS)
             base == Base_from_summary("ActivitySummaryBase", s)
         IN  IF base.err # None THEN base
             ELSE Built([base.obj EXCEPT !.variant = cls, !.raw = Copy(s)])

\* lines 527-536
_TYPE_MAP ==
    [k \in {str_road_biking, str_virtual_ride, str_cycling, str_biking, str_running,
            str_lap_swimming, str_swimming, str_open_water_swimming} |->
        IF k \in {str_road_biking, str_virtual_ride, str_cycling, str_biking}
        THEN "CyclingActivitySummary"
        ELSE IF k = str_running THEN "RunningActivitySummary"
        ELSE "SwimmingActivitySummary"]

\* _TYPE_MAP.get(key, GenericActivitySummary)
TypeMapGet(key) ==
    IF key \in DOMAIN _TYPE_MAP THEN _TYPE_MAP[key] ELSE "GenericActivitySummary"

\* lines 539-543
parse_activity_summary(summary) ==
    LET type_key == lower(strip(StrOr(_get_type_key(summary), str_unknown)))
        cls == TypeMapGet(type_key)
    IN  IF cls = "CyclingActivitySummary" THEN Cycling_from_summary(summary)
        ELSE Other_from_summary(cls, summary)

\* line 584: [parse_activity_summary(a) for a in raw]; the first record that
\* fails ends the comprehension with its exception
RECURSIVE ParseAll(_)
ParseAll(raw) ==
    IF raw = <<>> THEN Built(<<>>)
    ELSE LET first == parse_activity_summary(Head(raw))
         IN  IF first.err # None THEN first
             ELSE LET rest == ParseAll(Tail(raw))
                  IN  IF rest.err # None THEN rest
                      ELSE Built(<<first.obj>> \o rest.obj)

\* {t.strip().lower() for t in set(allowed_types)}
NormalizedTypes(types) == {lower(strip(t)) : t \in types}

\* line 633
FilterKey(a) == lower(strip(StrOr(_get_type_key(a), <<>>)))

\* lines 625-636
_filter_activities_by_type(activities, allowed_types) ==
    LET allowed == NormalizedTypes(allowed_types)
    IN  SelectSeq(activities, LAMBDA a : FilterKey(a) \in allowed)

(***************************************************************************)
(* The summaries the type and number claims are checked on                 *)
(***************************************************************************)
txt_CYCLING == <<67, 89, 67, 76, 73, 78, 71>>    \* "CYCLING"
txt_Swimming_spaced == <<32, 83, 119, 105, 109, 109, 105, 110, 103, 32>>    \* " Swimming "
txt_spaces == <<32, 32>>    \* "  "
txt_hiking == <<104, 105, 107, 105, 110, 103>>    \* "hiking"
txt_Running == <<82, 117, 110, 110, 105, 110, 103>>    \* "Running"
txt_Open_Water_Swimming == <<79, 112, 101, 110, 95, 87, 97, 116, 101, 114, 95, 83, 119, 105, 109, 109, 105, 110, 103>>    \* "Open_Water_Swimming"
txt_Ride == <<82, 105, 100, 101>>    \* "Ride"
txt_4321 == <<52, 51, 50, 49>>    \* "4321"
txt_12_spaced == <<32, 49, 50, 32>>    \* " 12 "
txt_abc == <<97, 98, 99>>    \* "abc"
txt_12_345 == <<49, 50, 46, 51, 52, 53>>    \* "12.345"
txt_Running_spaced == <<32, 82, 117, 110, 110, 105, 110, 103, 32>>    \* " Running "

\* the activityType values a record is drawn from
TypeValues ==
    { Absent, PyNone, PyInt(7),
      PyStr(str_running), PyStr(txt_CYCLING), PyStr(txt_Swimming_spaced),
      PyStr(<<>>), PyStr(txt_spaces), PyStr(txt_hiking), PyStr(str_unknown),
      Descriptor(PyStr(str_road_biking), Absent, Absent),
      Descriptor(PyStr(txt_Open_Water_Swimming), PyStr(txt_Ride), PyInt(2)),
      Descriptor(PyStr(<<>>), PyStr(txt_Running), PyInt(1)),
      Descriptor(PyInt(0), PyStr(str_lap_swimming), Absent),
      Descriptor(Absent, PyStr(str_virtual_ride), PyInt(152)),
      Descriptor(PyNone, PyNone, PyInt(17)),
      Descriptor(Absent, Absent, PyInt(0)),
      Descriptor(Absent, PyStr(<<>>), PyStr(<<>>)),
      Descriptor(PyNone, PyNone, PyNone),
      Descriptor(Absent, Absent, Absent) }

\* the activityId values a record is drawn from
IdValues ==
    { Absent, PyNone, PyList, PyStr(txt_abc), PyStr(<<>>), PyStr(txt_12_345),
      PyInt(0), PyInt(4321), PyStr(txt_4321), PyStr(txt_12_spaced),
      PyFloat(12700, 0), PyBool(TRUE) }

\* the values a numeric field is drawn from: 10000.456, 2.675 (just below
\* the decimal in binary), 0.125 and 0.375 (exactly midway), 0.135 (just
\* above), -1.005 (just above), 1.2, 0.004, and values that are not numbers
NumberValues ==
    { Absent, PyNone, PyBool(TRUE), PyBool(FALSE), PyInt(5), PyInt(-3), PyInt(0),
      PyFloat(10000456, 0), PyFloat(2675, -1), PyFloat(125, 0), PyFloat(375, 0),
      PyFloat(135, 1), PyFloat(-1005, 1), PyFloat(1200, 0), PyFloat(4, 0),
      PyFloat(-996, 0), PyStr(txt_12_345), PyList }

LatitudeValues == {Absent, PyFloat(45468, 0), PyFloat(-12345, -1)}

\* ownerId is a field of the provider none of the typed models reads
Summary(i, ty, id, dist, lat) ==
    [obj |-> i, startTimeLocal |-> Stl("T19", D1), beginTimestamp |-> NoTs,
     activityId |-> id, activityType |-> ty, distance |-> dist, endLatitude |-> lat,
     ownerId |-> PyInt(77)]

\* one record: every type with every id, and every pair of numbers on a run
\* and on a ride
SingleSummaries ==
    { <<Summary(1, ty, id, PyFloat(10000456, 0), Absent)>> :
        ty \in TypeValues, id \in IdValues }
    \cup
    { <<Summary(1, ty, PyInt(4321), dist, lat)>> :
        ty \in {PyStr(str_running), Descriptor(PyStr(str_road_biking), Absent, Absent)},
        dist \in NumberValues, lat \in LatitudeValues }

\* the records of the lists: types that are mapped, unmapped, unresolved and
\* written in another case, with an id that parses or one that is missing
ListTypes ==
    { Absent, PyStr(str_running), PyStr(txt_CYCLING), PyStr(txt_hiking),
      Descriptor(PyStr(<<>>), PyStr(txt_Running), PyInt(1)),
      Descriptor(PyNone, PyNone, PyNone) }

ListIds == {PyInt(4321), Absent}

MaxSummaries == 2

ListSummaries ==
    UNION { { [i \in 1..n |-> Summary(i, f[i][1], f[i][2], PyFloat(10000456, 0), Absent)] :
                f \in [1..n -> ListTypes \X ListIds] } : n \in 0..MaxSummaries }

\* activity_type: an iterable of type names ("list"), or a single str whose
\* text is the one member of types
TypesArg(kind, types) == [kind |-> kind, types |-> types]

\* lines 577-581
AllowedOf(arg) ==
    IF arg.kind # "str" THEN {lower(strip(t)) : t \in arg.types}
    ELSE {lower(strip(CHOOSE t \in arg.types : TRUE))}

AllowedArgs ==
    { TypesArg("list", {}), TypesArg("list", {str_running}),
      TypesArg("list", {txt_Running_spaced}), TypesArg("list", {str_unknown}),
      TypesArg("list", {txt_CYCLING, txt_hiking}), TypesArg("list", {<<>>}) }

(***************************************************************************)
(* State                                                                   *)
(***************************************************************************)
VARIABLES
    data,            \* provider: the records it holds, in listing order
    provCap,         \* provider: None, or Some(n): at most n records per page
    sessionFile,     \* file system: state of the session file
    pc,              \* position of the running call
    start_date, end_date, session_file,     \* get_activities_in_range arguments
    activity_type,
    activity_id,     \* None, or Some(argument of get_activity_details)
    start_date_iso, end_date_iso,           \* fetcher arguments
    page_size, max_pages,
    start_d, end_d,                         \* fetcher locals
    collected, offset, pages, batch_list, idx,
    api,             \* None, or Some(how the handle was authenticated)
    result,          \* None, or Some(list of raw records returned)
    summaries,       \* None, or Some(list of typed records returned)
    error,           \* None, or Some(name of the exception that propagated)
    reqs,            \* history: page requests made, with the page returned
    examined,        \* history: records the for loop has looked at
    events           \* history: session file accesses and logins

fetchArgs == <<start_date_iso, end_date_iso, page_size, max_pages>>
fetchLocals == <<start_d, end_d, collected, offset, pages, batch_list, idx>>
callArgs == <<start_date, end_date, session_file, activity_type, activity_id>>
env == <<data, provCap>>
authState == <<sessionFile, api, events>>

vars == <<data, provCap, sessionFile, pc, start_date, end_date, session_file,
          activity_type, activity_id, summaries,
          start_date_iso, end_date_iso, page_size, max_pages,
          start_d, end_d, collected, offset, pages, batch_list, idx,
          api, result, error, reqs, examined, events>>

(***************************************************************************)
(* The provider's listing: api.get_activities(start, limit)                *)
(***************************************************************************)
get_activities(off, limit) ==
    LET eff == IF provCap = None THEN limit ELSE Min(limit, provCap[1])
    IN  SubSeq(data, off + 1, Min(Len(data), off + eff))

(***************************************************************************)
(* _fetch_activities_in_range_via_paging                                   *)
(***************************************************************************)

\* line 233
PageSizeInvalid(ps) == ps <= 0 \/ ps > MaxPageSize

\* Function entry: validates page_size, parses the bounds, initialises locals.
FetchEntry ==
    /\ pc = "fetch_entry"
    /\ IF PageSizeInvalid(page_size)
       THEN /\ pc' = "raised"
            /\ error' = Some("ValueError:page_size")
            /\ UNCHANGED fetchLocals
       ELSE IF strptime_ymd(start_date_iso) = None \/ strptime_ymd(end_date_iso) = None
       THEN /\ pc' = "raised"
            /\ error' = Some("ValueError:strptime")
            /\ UNCHANGED fetchLocals
       ELSE /\ pc' = "request"
            /\ start_d' = strptime_ymd(start_date_iso)[1]
            /\ end_d' = strptime_ymd(end_date_iso)[1]
            /\ collected' = <<>>
            /\ offset' = 0
            /\ pages' = 0
            /\ UNCHANGED <<batch_list, idx, error>>
    /\ UNCHANGED <<env, summaries, authState, callArgs, fetchArgs, result, reqs, examined>>

\* Top of the while loop: one page request; an empty page ends the fetch.
RequestPage ==
    /\ pc = "request"
    /\ LET batch == get_activities(offset, page_size)
       IN  /\ batch_list' = batch
           /\ reqs' = Append(reqs, [offset |-> offset, limit |-> page_size, page |-> batch])
           /\ IF batch = <<>>
              THEN /\ pc' = "fetched"
                   /\ result' = Some(collected)
                   /\ idx' = idx
              ELSE /\ pc' = "scan"
                   /\ idx' = 1
                   /\ result' = result
    /\ UNCHANGED <<env, summaries, authState, callArgs, fetchArgs, start_d, end_d, collected,
                   offset, pages, error, examined>>

\* line 244 stands in no try block: the exception of the provider leaves the
\* fetcher as it was raised, and the fetcher attaches no request to it
RequestAttached(off, limit) == None

\* The page request itself fails (network / HTTP error): nothing catches it.
RequestPageFails ==
    /\ pc = "request"
    /\ pc' = "raised"
    /\ error' = Some("ProviderError:get_activities")
    /\ UNCHANGED <<env, summaries, authState, callArgs, fetchArgs, fetchLocals, result, reqs,
                   examined>>

\* lines 252-268: what the loop body does with a record of extracted date d
Verdict_keepTooNew(d, s, e) ==
    IF d = None THEN "keep"
    ELSE IF DateLT(d[1], s) THEN "stop"
    ELSE "keep"
Verdict_stopAtStart(d, s, e) ==
    IF d = None THEN "keep"
    ELSE IF DateLT(e, d[1]) THEN "skip"
    ELSE IF DateLE(d[1], s) THEN "stop"
    ELSE "keep"
Verdict_finishPage(d, s, e) ==
    IF d = None THEN "keep"
    ELSE IF DateLT(e, d[1]) THEN "skip"
    ELSE IF DateLT(d[1], s) THEN "skip"
    ELSE "keep"
Verdict_stopTooNew(d, s, e) ==
    IF d = None THEN "keep"
    ELSE IF DateLT(e, d[1]) THEN "stop"
    ELSE IF DateLT(d[1], s) THEN "stop"
    ELSE "keep"
Verdict_dropUndated(d, s, e) ==
    IF d = None THEN "skip"
    ELSE IF DateLT(e, d[1]) THEN "skip"
    ELSE IF DateLT(d[1], s) THEN "stop"
    ELSE "keep"
Verdict(d, s, e) ==
    IF d = None THEN "keep"
    ELSE IF DateLT(e, d[1]) THEN "skip"
    ELSE IF DateLT(d[1], s) THEN "stop"
    ELSE "keep"

\* collected.append(act)
Keep_prepend(c, act) == <<act>> \o c
Keep(c, act) == Append(c, act)

\* One iteration of the for loop over the page.
ExamineRecord ==
    /\ pc = "scan"
    /\ idx <= Len(batch_list)
    /\ LET act == batch_list[idx]
           v == Verdict(_parse_activity_date_local(act), start_d, end_d)
       IN  /\ examined' = Append(examined, act)
           /\ IF DateOutcome(act).err # None
              THEN /\ pc' = "raised"
                   /\ error' = DateOutcome(act).err
                   /\ UNCHANGED <<collected, idx, result>>
              ELSE IF v = "stop"
              THEN /\ pc' = "fetched"
                   /\ result' = Some(collected)
                   /\ UNCHANGED <<collected, idx, error>>
              ELSE /\ collected' = IF v = "keep" THEN Keep(collected, act) ELSE collected
                   /\ idx' = idx + 1
                   /\ UNCHANGED <<pc, result, error>>
    /\ UNCHANGED <<env, summaries, authState, callArgs, fetchArgs, start_d, end_d, offset, pages,
                   batch_list, reqs>>

\* line 272
ReachedMaxPages(p, mp) == mp # None /\ p >= mp[1]

\* line 276
ShortPage_never(batch, ps) == FALSE
ShortPage_afterFilter(batch, ps) ==
    IF activity_type = None THEN Len(batch) < ps
    ELSE Len(_filter_activities_by_type(batch, AllowedOf(activity_type[1]))) < ps
ShortPage(batch, ps) == Len(batch) < ps

\* line 270: offset += len(batch_list)
NextOffset_onePerPage(off, batch) == off + 1
NextOffset(off, batch) == off + Len(batch)

\* After the for loop: advance the offset, count the page, decide to go on.
EndOfPage ==
    /\ pc = "scan"
    /\ idx > Len(batch_list)
    /\ offset' = NextOffset(offset, batch_list)
    /\ pages' = pages + 1
    /\ IF ReachedMaxPages(pages + 1, max_pages) \/ ShortPage(batch_list, page_size)
       THEN /\ pc' = "fetched"
            /\ result' = Some(collected)
       ELSE /\ pc' = "request"
            /\ result' = result
    /\ UNCHANGED <<env, summaries, authState, callArgs, fetchArgs, start_d, end_d, collected,
                   batch_list, idx, error, reqs, examined>>

\* The fetcher is called on its own, with an authenticated handle, a valid
\* range and any page_size and max_pages.
ValidRanges == {<<isoformat(s), isoformat(e)>> : s \in {D1, D2}, e \in {D1, D2}}
                  \ {<<isoformat(D2), isoformat(D1)>>}

PageSizes == {0, 1, 2, MaxPageSize, MaxPageSize + 1}
MaxPagesArgs == {None, Some(0), Some(1), Some(2)}

CallFetch ==
    /\ pc = "idle"
    /\ pc' = "fetch_entry"
    /\ \E r \in ValidRanges : start_date_iso' = r[1] /\ end_date_iso' = r[2]
    /\ page_size' \in PageSizes
    /\ max_pages' \in MaxPagesArgs
    /\ api' = Some("given")
    /\ UNCHANGED <<env, summaries, sessionFile, events, callArgs, fetchLocals, result, error, reqs,
                   examined>>

NextFetch ==
    CallFetch \/ FetchEntry \/ RequestPage \/ RequestPageFails \/ ExamineRecord \/ EndOfPage

\* Before any call: the provider holds one of `contents`, nothing has run.
InitOver(contents, caps, files, types) ==
    /\ data \in contents
    /\ provCap \in caps
    /\ sessionFile \in files
    /\ api = None
    /\ pc = "idle"
    /\ start_date = None /\ end_date = None /\ session_file = None
    /\ activity_type \in types
    /\ activity_id = None
    /\ start_date_iso = <<>> /\ end_date_iso = <<>>
    /\ page_size = DefaultPageSize
    /\ max_pages = None
    /\ start_d = D0 /\ end_d = D0
    /\ collected = <<>> /\ offset = 0 /\ pages = 0 /\ batch_list = <<>> /\ idx = 0
    /\ result = None /\ summaries = None /\ error = None
    /\ reqs = <<>> /\ examined = <<>> /\ events = <<>>

InitFetch == InitOver(DataSets, {None, Some(1)}, {"missing"}, {None})

SpecFetch == InitFetch /\ [][NextFetch]_vars

\* A smaller provider: records drawn from three encodings, one always before
\* the range, one on 9 January, one undated.
BasicStamps ==
    { [stl |-> Stl("space19", D0), ts |-> NoTs],
      [stl |-> Stl("T19", D1), ts |-> NoTs],
      [stl |-> Stl("garbage", D2), ts |-> Ms(D2)] }

BasicDataSets == UNION {{MkData(f) : f \in [1..n -> BasicStamps]} : n \in 0..MaxData}

InitFetchLive == InitOver(BasicDataSets, {None, Some(1)}, {"missing"}, {None})

\* The loop runs to completion: no step of the fetcher waits on anything
\* but the provider's answer, which arrives or fails.
FairSpecFetch == InitFetchLive /\ [][NextFetch]_vars /\ WF_vars(NextFetch)

\* A provider whose records carry every kind of broken timestamp: numbers
\* that overflow, nan, numbers the platform refuses, values of the wrong
\* type, unparseable text, and no timestamp at all.
BrokenStamps ==
    { [stl |-> NoStl, ts |-> [kind |-> "overflow", date |-> D0]],
      [stl |-> NoStl, ts |-> [kind |-> "nan", date |-> D0]],
      [stl |-> NoStl, ts |-> [kind |-> "platform", date |-> D0]],
      [stl |-> NoStl, ts |-> [kind |-> "text", date |-> D0]],
      [stl |-> NoStl, ts |-> NoTs],
      [stl |-> Stl("garbage", D1), ts |-> NoTs],
      [stl |-> Stl("garbage", D1), ts |-> [kind |-> "overflow", date |-> D0]] }

MaxStampData == 2

StampDataSets ==
    UNION {{MkData(f) : f \in [1..n -> Stamps \cup BrokenStamps]} : n \in 0..MaxStampData}

InitStamps == InitOver(StampDataSets, {None}, {"missing"}, {None})

SpecStamps == InitStamps /\ [][NextFetch]_vars

(***************************************************************************)
(* get_activities_in_range: arguments and range validation                 *)
(*                                                                         *)
(* A DateLike argument is a str (its text), a date or a datetime (the date *)
(* it holds), or a value of another type.  `denotes` is the calendar date  *)
(* the caller means, None when the argument means none.                    *)
(***************************************************************************)
StrArg(text, d) == [kind |-> "str", text |-> text, denotes |-> d]
DateArg(d) == [kind |-> "date", text |-> <<>>, denotes |-> Some(d)]
DatetimeArg(d) == [kind |-> "datetime", text |-> <<>>, denotes |-> Some(d)]
OtherArg == [kind |-> "other", text |-> <<>>, denotes |-> None]

\* "2025/01/09"
SlashText == <<50, 48, 50, 53, 47, 48, 49, 47, 48, 57>>

StartArgs == {StrArg(isoformat(D2), Some(D2)), DateArg(D1), StrArg(SlashText, None)}
EndArgs == {StrArg(LooseFormat(D1), Some(D1)), DatetimeArg(D2), OtherArg}

\* _to_iso: [err |-> None, iso |-> text], or err = Some(exception raised)
_to_iso(d) ==
    IF d.kind \in {"datetime", "date"}
    THEN [err |-> None, iso |-> isoformat(d.denotes[1])]
    ELSE IF d.kind = "str"
    THEN LET parsed == strptime_ymd(d.text)
         IN  IF parsed = None
             THEN [err |-> Some("ValueError:date"), iso |-> <<>>]
             ELSE [err |-> None, iso |-> isoformat(parsed[1])]
    ELSE [err |-> Some("TypeError:date"), iso |-> <<>>]

\* line 83
RangeInvalid_ge(s, e) == s = e \/ StrGT(s, e)
RangeInvalid(s, e) == StrGT(s, e)

\* _validate_range: the two ISO strings, or the exception raised
_validate_range(sd, ed) ==
    LET s == _to_iso(sd)
        e == _to_iso(ed)
    IN  IF s.err # None THEN [err |-> s.err, s |-> <<>>, e |-> <<>>]
        ELSE IF e.err # None THEN [err |-> e.err, s |-> <<>>, e |-> <<>>]
        ELSE IF RangeInvalid(s.iso, e.iso)
        THEN [err |-> Some("ValueError:range"), s |-> <<>>, e |-> <<>>]
        ELSE [err |-> None, s |-> s.iso, e |-> e.iso]

PipelinePageSizes == {0, 2, DefaultPageSize, MaxPageSize + 1}
PipelineMaxPages == {None, Some(1)}
PipelineTypeArgs == {None, Some(TypesArg("str", {txt_Running_spaced}))}

\* A caller invokes get_activities_in_range.
CallGetActivitiesInRange ==
    /\ pc = "idle"
    /\ pc' = "validate"
    /\ start_date' \in {Some(a) : a \in StartArgs}
    /\ end_date' \in {Some(a) : a \in EndArgs}
    /\ session_file' \in {None, Some("session.json")}
    /\ activity_type' \in PipelineTypeArgs
    /\ activity_id' = activity_id
    /\ page_size' \in PipelinePageSizes
    /\ max_pages' \in PipelineMaxPages
    /\ UNCHANGED <<env, summaries, authState, start_date_iso, end_date_iso, fetchLocals, result,
                   error, reqs, examined>>

\* line 565: s, e = _validate_range(start_date, end_date)
ValidateRange ==
    /\ pc = "validate"
    /\ LET v == _validate_range(start_date[1], end_date[1])
       IN  IF v.err # None
           THEN /\ pc' = "raised"
                /\ error' = v.err
                /\ UNCHANGED <<start_date_iso, end_date_iso>>
           ELSE /\ pc' = "init_api"
                /\ start_date_iso' = v.s
                /\ end_date_iso' = v.e
                /\ error' = error
    /\ UNCHANGED <<env, summaries, authState, callArgs, page_size, max_pages, fetchLocals, result,
                   reqs, examined>>

(***************************************************************************)
(* init_api                                                                *)
(***************************************************************************)
Ev(op, outcome) == [op |-> op, outcome |-> outcome]

SessionFileStates == {"missing", "unreadable", "corrupt", "valid"}

\* what api.login can answer
LoginOutcomes ==
    {"ok", "GarminConnectConnectionError", "GarminConnectAuthenticationError",
     "GarminConnectTooManyRequestsError", "HTTPError"}

\* requests.exceptions.HTTPError derives from IOError, which is OSError
IsOSError(x) == x \in {"OSError", "HTTPError"}

\* line 180: except (OSError, ValueError, GarminConnectAuthenticationError)
RestoreCaught(x) ==
    IsOSError(x) \/ x = "ValueError" \/ x = "GarminConnectAuthenticationError"

\* lines 566-568 and 597-598: where the caller of init_api goes on
AfterInitApi == IF activity_id = None THEN "fetch_entry" ELSE "get_details"

\* lines 173 and 193: auth.session_file is not None
SessionConfigured_always(sf) == TRUE
SessionConfigured(sf) == sf # None

\* lines 170-181: the handle is created and, when a session file is configured
\* and exists, restored from it.
InitApi ==
    /\ pc = "init_api"
    /\ IF ~SessionConfigured(session_file)
       THEN /\ pc' = "login"
            /\ UNCHANGED <<api, events, error>>
       ELSE IF sessionFile = "missing"
       THEN /\ pc' = "login"
            /\ events' = Append(events, Ev("stat_session", "absent"))
            /\ UNCHANGED <<api, error>>
       ELSE \E o \in (IF sessionFile = "unreadable" THEN {"OSError"}
                      ELSE IF sessionFile = "corrupt" THEN {"ValueError"}
                      ELSE LoginOutcomes) :
              /\ events' =
                    events \o <<Ev("stat_session", "present")>>
                      \o (IF sessionFile = "unreadable"
                          THEN <<Ev("read_session", o)>>
                          ELSE IF sessionFile = "corrupt"
                          THEN <<Ev("read_session", "ok"), Ev("parse_session", o)>>
                          ELSE <<Ev("read_session", "ok"), Ev("parse_session", "ok"),
                                 Ev("login_saved", o)>>)
              /\ IF o = "ok"
                 THEN /\ pc' = AfterInitApi
                      /\ api' = Some("session")
                      /\ error' = error
                 ELSE IF RestoreCaught(o)
                 THEN /\ pc' = "login"
                      /\ UNCHANGED <<api, error>>
                 ELSE /\ pc' = "raised"
                      /\ error' = Some(o)
                      /\ api' = api
    /\ UNCHANGED <<env, summaries, sessionFile, callArgs, fetchArgs, fetchLocals, result, reqs,
                   examined>>

\* line 190: except (GarminConnectConnectionError,
\* GarminConnectAuthenticationError, GarminConnectTooManyRequestsError,
\* requests.exceptions.HTTPError)
LoginCaught(x) ==
    x \in {"GarminConnectConnectionError", "GarminConnectAuthenticationError",
           "GarminConnectTooManyRequestsError", "HTTPError"}

\* line 191: raise RuntimeError(f"Garmin login failed: {err}") from err
LoginFailure_bare(err) == err
LoginFailure(err) ==
    CASE err = "GarminConnectConnectionError"
            -> "RuntimeError from GarminConnectConnectionError"
      [] err = "GarminConnectAuthenticationError"
            -> "RuntimeError from GarminConnectAuthenticationError"
      [] err = "GarminConnectTooManyRequestsError"
            -> "RuntimeError from GarminConnectTooManyRequestsError"
      [] OTHER -> "RuntimeError from HTTPError"

\* lines 183-191: fresh login; a failure is raised as RuntimeError
FreshLogin ==
    /\ pc = "login"
    /\ \E o \in LoginOutcomes :
          /\ events' = Append(events, Ev("login", o))
          /\ IF o = "ok"
             THEN /\ api' = Some("fresh")
                  /\ pc' = IF SessionConfigured(session_file) THEN "persist" ELSE AfterInitApi
                  /\ error' = error
             ELSE /\ pc' = "raised"
                  /\ error' = Some(IF LoginCaught(o) THEN LoginFailure(o) ELSE o)
                  /\ api' = api
    /\ UNCHANGED <<env, summaries, sessionFile, callArgs, fetchArgs, fetchLocals, result, reqs,
                   examined>>

\* what the three steps of the persistence block can answer: getattr on a
\* handle without session_data, json.dumps on a value it cannot serialise,
\* write_text on a path that cannot be written
PersistOutcomes == {"ok", "AttributeError", "TypeError", "OSError"}

\* line 200: except (OSError, AttributeError, TypeError)
PersistCaught_onlyOSError(x) == x = "OSError"
PersistCaught(x) == x \in {"OSError", "AttributeError", "TypeError"}

\* lines 193-203: the session is written; a caught failure is ignored
PersistSession ==
    /\ pc = "persist"
    /\ \E o \in PersistOutcomes :
          /\ events' =
                events \o
                  (IF o = "AttributeError"
                   THEN <<Ev("session_data", o)>>
                   ELSE IF o = "TypeError"
                   THEN <<Ev("session_data", "ok"), Ev("dump_session", o)>>
                   ELSE <<Ev("session_data", "ok"), Ev("dump_session", "ok"),
                          Ev("write_session", o)>>)
          /\ sessionFile' = IF o = "ok" THEN "valid" ELSE sessionFile
          /\ IF o = "ok" \/ PersistCaught(o)
             THEN /\ pc' = AfterInitApi
                  /\ UNCHANGED <<api, error>>
             ELSE /\ pc' = "raised"
                  /\ error' = Some(o)
                  /\ api' = None
    /\ UNCHANGED <<env, summaries, callArgs, fetchArgs, fetchLocals, result, reqs, examined>>

\* lines 576-584: the optional type filter, then every record parsed; an
\* exception of the comprehension is the exception of the call
FilterAndParse ==
    /\ pc = "fetched"
    /\ LET raw == IF activity_type # None
                  THEN _filter_activities_by_type(result[1], AllowedOf(activity_type[1]))
                  ELSE result[1]
           parsed == ParseAll(raw)
       IN  IF parsed.err # None
           THEN /\ pc' = "raised"
                /\ error' = parsed.err
                /\ summaries' = summaries
           ELSE /\ pc' = "returned"
                /\ summaries' = Some(parsed.obj)
                /\ error' = error
    /\ UNCHANGED <<env, authState, callArgs, fetchArgs, fetchLocals, result, reqs,
                   examined>>

(***************************************************************************)
(* get_activity_details                                                    *)
(*                                                                         *)
(* A detail payload is a value that is no dict, or a dict with the fields  *)
(* distance and summaryDTO; summaryDTO is missing, a value that is no      *)
(* dict, or a dict of its own with a distance.  The provider's objects     *)
(* have identities above 100.                                              *)
(***************************************************************************)
Dict(i, dist, dto) ==
    [t |-> "dict", obj |-> i, distance |-> dist, endLatitude |-> Absent, summaryDTO |-> dto]

\* what the provider holds for each activity id
DetailsStore ==
    <<PyNone,
      PyList,
      Dict(101, PyFloat(10000456, 0), Absent),
      Dict(102, PyInt(5), Dict(202, PyFloat(2675, -1), Absent)),
      Dict(103, Absent, PyStr(txt_abc)),
      Dict(104, PyFloat(1200, 0), Dict(204, PyFloat(10000456, 0), Absent))>>

DetailIds == DOMAIN DetailsStore

\* what api.get_activity_details can answer
DetailOutcomes == LoginOutcomes \cup {"KeyError"}

\* lines 600-605
DetailsCaught(x) ==
    x \in {"GarminConnectConnectionError", "GarminConnectAuthenticationError",
           "GarminConnectTooManyRequestsError", "HTTPError"}

\* lines 613-614, of the fields modelled
DetailKeys == {"distance"}

\* lines 610-622: what is returned for the payload details
DetailsOf(id, details) ==
    IF details.t # "dict" THEN [activityId |-> id, raw |-> details]
    ELSE LET details2 == _normalize_numeric_fields(details, DetailKeys)
         IN  IF details2.summaryDTO.t = "dict"
             THEN [details2 EXCEPT
                     !.summaryDTO = _normalize_numeric_fields(details2.summaryDTO, DetailKeys)]
             ELSE details2

CallGetActivityDetails ==
    /\ pc = "idle"
    /\ pc' = "init_api"
    /\ activity_id' \in {Some(id) : id \in DetailIds}
    /\ session_file' \in {None, Some("session.json")}
    /\ UNCHANGED <<env, summaries, authState, start_date, end_date, activity_type, fetchArgs,
                   fetchLocals, result, error, reqs, examined>>

\* lines 598-622: the payload is asked for; a provider failure is raised as
\* RuntimeError, a payload is returned normalized
GetActivityDetails ==
    /\ pc = "get_details"
    /\ \E o \in DetailOutcomes :
          IF o = "ok"
          THEN /\ pc' = "details_returned"
               /\ result' = Some(DetailsOf(activity_id[1], DetailsStore[activity_id[1]]))
               /\ error' = error
          ELSE /\ pc' = "raised"
               /\ error' = Some(IF DetailsCaught(o) THEN "RuntimeError from get_activity_details"
                                ELSE o)
               /\ result' = result
    /\ UNCHANGED <<env, summaries, authState, callArgs, fetchArgs, fetchLocals, reqs, examined>>

(***************************************************************************)
(* get_activities_in_range and get_activity_details as a whole:            *)
(* validation, init_api, the fetch, the details                            *)
(***************************************************************************)
Next ==
    \/ CallGetActivitiesInRange
    \/ ValidateRange
    \/ InitApi
    \/ FreshLogin
    \/ PersistSession
    \/ FetchEntry
    \/ RequestPage
    \/ RequestPageFails
    \/ ExamineRecord
    \/ EndOfPage
    \/ FilterAndParse
    \/ CallGetActivityDetails
    \/ GetActivityDetails

\* The provider of the whole call: records drawn from four kinds, an untyped
\* record dated before the range, a ride on 9 January typed "CYCLING", an
\* undated run, and a run on 9 January without an activityId.
PipelineKinds ==
    { [stl |-> Stl("space19", D0), ts |-> NoTs,
       ty |-> Absent, id |-> PyInt(4321)],
      [stl |-> Stl("T19", D1), ts |-> NoTs,
       ty |-> PyStr(txt_CYCLING), id |-> PyInt(4321)],
      [stl |-> Stl("garbage", D2), ts |-> Ms(D2),
       ty |-> Descriptor(PyStr(str_running), Absent, Absent), id |-> PyStr(txt_4321)],
      [stl |-> Stl("T19", D1), ts |-> NoTs,
       ty |-> Descriptor(PyStr(str_running), Absent, Absent), id |-> Absent] }

MkSummaries(f) ==
    [i \in DOMAIN f |->
        [obj |-> i, startTimeLocal |-> f[i].stl, beginTimestamp |-> f[i].ts,
         activityId |-> f[i].id, activityType |-> f[i].ty,
         distance |-> PyFloat(10000456, 0), endLatitude |-> Absent]]

MaxPipelineData == 2

PipelineDataSets ==
    UNION {{MkSummaries(f) : f \in [1..n -> PipelineKinds]} : n \in 0..MaxPipelineData}

Init == InitOver(PipelineDataSets, {None}, SessionFileStates, {None})

Spec == Init /\ [][Next]_vars

(***************************************************************************)
(* The functions on summaries, each applied to inputs drawn at the start   *)
(***************************************************************************)
\* _filter_activities_by_type(data, allowed_types)
ApplyFilter ==
    /\ pc = "idle"
    /\ pc' = "filtered"
    /\ result' = Some(_filter_activities_by_type(data, activity_type[1].types))
    /\ UNCHANGED <<env, summaries, authState, callArgs, fetchArgs, fetchLocals, error,
                   reqs, examined>>

\* [parse_activity_summary(a) for a in data]
ApplyParse ==
    /\ pc = "idle"
    /\ LET parsed == ParseAll(data)
       IN  IF parsed.err # None
           THEN /\ pc' = "raised"
                /\ error' = parsed.err
                /\ summaries' = summaries
           ELSE /\ pc' = "parsed"
                /\ summaries' = Some(parsed.obj)
                /\ error' = error
    /\ UNCHANGED <<env, authState, callArgs, fetchArgs, fetchLocals, result, reqs,
                   examined>>

\* [_normalize_numeric_fields(a, keys) for a in data], keys those of cycling
ApplyNormalize ==
    /\ pc = "idle"
    /\ pc' = "normalized"
    /\ result' = Some([i \in 1..Len(data) |-> _normalize_numeric_fields(data[i], CyclingKeys)])
    /\ UNCHANGED <<env, summaries, authState, callArgs, fetchArgs, fetchLocals, error,
                   reqs, examined>>

\* line 344: asdict(self), which copies the raw dict with every item
to_dict(typed) == [typed EXCEPT !.raw = Copy(typed.raw)]

\* lines 346-362; include_raw is None when the caller leaves it to its
\* default
to_public_dict_alwaysPop(typed, include_raw) ==
    [k \in DOMAIN to_dict(typed) \ {"raw"} |-> to_dict(typed)[k]]
to_public_dict(typed, include_raw) ==
    LET data_ == to_dict(typed)
        include == IF include_raw = None THEN FALSE ELSE include_raw[1]
    IN  IF ~include THEN [k \in DOMAIN data_ \ {"raw"} |-> data_[k]] ELSE data_

IncludeRawArgs == {None, Some(TRUE), Some(FALSE)}

\* mcp_sport.py line 145: [a.to_public_dict(include_raw=include_raw) for a in
\* acts] on the typed records parsed from data
ApplyPublicDict ==
    /\ pc = "parsed"
    /\ pc' = "public"
    /\ \E include_raw \in IncludeRawArgs :
          result' = Some([include_raw |-> include_raw,
                          activities |-> [i \in 1..Len(summaries[1]) |->
                                            to_public_dict(summaries[1][i], include_raw)]])
    /\ UNCHANGED <<env, summaries, authState, callArgs, fetchArgs, fetchLocals, error,
                   reqs, examined>>

NextSummaries == ApplyFilter \/ ApplyParse \/ ApplyNormalize \/ ApplyPublicDict

InitSummaries ==
    InitOver(SingleSummaries \cup ListSummaries, {None}, {"missing"},
             {Some(a) : a \in AllowedArgs})

SpecSummaries == InitSummaries /\ [][NextSummaries]_vars


(***************************************************************************)
(* Vocabulary of the properties                                            *)
(***************************************************************************)
Range(seq) == {seq[i] : i \in 1..Len(seq)}

RangeStart == strptime_ymd(start_date_iso)[1]
RangeEnd == strptime_ymd(end_date_iso)[1]

Undated(act) == _parse_activity_date_local(act) = None
LocalDate(act) == _parse_activity_date_local(act)[1]

IsBeforeStart(act) == ~Undated(act) /\ DateLT(LocalDate(act), RangeStart)
IsAfterEnd(act) == ~Undated(act) /\ DateLT(RangeEnd, LocalDate(act))
IsInRange(act) == ~Undated(act) /\ ~IsBeforeStart(act) /\ ~IsAfterEnd(act)

\* the fetch returned from inside the for loop
StoppedInLoop == pc = "fetched" /\ batch_list # <<>> /\ idx <= Len(batch_list)

\* the provider lists its dated records newest first
NewestFirst ==
    \A i, j \in 1..Len(data) :
        (i < j /\ ~Undated(data[i]) /\ ~Undated(data[j]))
            => ~DateLT(LocalDate(data[i]), LocalDate(data[j]))

RECURSIVE AllPagesFrom(_)
AllPagesFrom(rs) == IF rs = <<>> THEN <<>> ELSE Head(rs).page \o AllPagesFrom(Tail(rs))

\* the fetched pages, concatenated in arrival order
AllPages == AllPagesFrom(reqs)

RECURSIVE IsSubSeq(_, _)
IsSubSeq(s, t) ==
    IF s = <<>> THEN TRUE
    ELSE IF t = <<>> THEN FALSE
    ELSE IF Head(s) = Head(t) THEN IsSubSeq(Tail(s), Tail(t))
    ELSE IsSubSeq(s, Tail(t))

(***************************************************************************)
(* C1: the returned list holds no record whose extracted local date is     *)
(* before startDate or after endDate; only undated records may lie outside *)
(* the range.                                                              *)
(***************************************************************************)
C1_ResultWithinRange ==
    /\ \A i \in 1..Len(collected) : Undated(collected[i]) \/ IsInRange(collected[i])
    /\ result # None =>
          \A i \in 1..Len(result[1]) : Undated(result[1][i]) \/ IsInRange(result[1][i])

\* a returned list with an undated and an in-range record, after records on
\* both sides of the range were examined
C1_Witness ==
    /\ result # None
    /\ \E a \in Range(examined) : IsAfterEnd(a)
    /\ \E a \in Range(examined) : IsBeforeStart(a)
    /\ \E a \in Range(result[1]) : IsInRange(a)

C3_NoInRangeRecordLost ==
    (result # None /\ NewestFirst /\ max_pages = None /\ provCap = None)
        => \A i \in 1..Len(data) : IsInRange(data[i]) => data[i] \in Range(result[1])

\* two pages, records on both bounds of a two-day range returned
C3_Witness ==
    /\ result # None /\ NewestFirst /\ max_pages = None /\ provCap = None
    /\ Len(reqs) >= 2
    /\ RangeStart # RangeEnd
    /\ \E a, b \in Range(result[1]) :
          /\ ~Undated(a) /\ LocalDate(a) = RangeStart
          /\ ~Undated(b) /\ LocalDate(b) = RangeEnd

(***************************************************************************)
(* C4: an undated record that is examined is always kept, and it has no    *)
(* part in the stop decision: the fetch has returned from inside the loop  *)
(* exactly when a dated record before startDate was examined.              *)
(***************************************************************************)
C4_UndatedKeptNoStop ==
    /\ \A a \in Range(examined) : Undated(a) => a \in Range(collected)
    /\ result # None => \A a \in Range(examined) : Undated(a) => a \in Range(result[1])
    /\ StoppedInLoop <=> \E a \in Range(SelectSeq(examined, LAMBDA r : ~Undated(r))) :
                            IsBeforeStart(a)
    /\ \A i \in 1..Len(examined) : Undated(examined[i]) => i < Len(examined) \/ ~StoppedInLoop

\* an undated record examined, then an old record stopped the fetch
C4_Witness ==
    /\ StoppedInLoop
    /\ \E i \in 1..Len(examined) : Undated(examined[i]) /\ i < Len(examined)
    /\ \E a \in Range(result[1]) : Undated(a)

(***************************************************************************)
(* C5: the fetch terminates, and a page request is followed by another     *)
(* only if it returned a full page (neither empty nor short).              *)
(***************************************************************************)
C5_TerminatesNoRequestAfterShortPage ==
    /\ <>(pc \in {"fetched", "raised"})
    /\ [](\A k \in 1..(Len(reqs) - 1) : Len(reqs[k].page) = reqs[k].limit)

\* the fetch ended on a short, non-empty second page
C5_Witness ==
    /\ pc = "fetched"
    /\ ~StoppedInLoop
    /\ max_pages = None
    /\ Len(reqs) = 2
    /\ reqs[2].page # <<>>
    /\ Len(reqs[2].page) < page_size

(***************************************************************************)
(* C6: with maxPages configured, the number of page requests of one fetch  *)
(* never exceeds maxPages.                                                 *)
(***************************************************************************)
C6_RequestsWithinMaxPages ==
    max_pages # None => Len(reqs) <= max_pages[1]

(***************************************************************************)
(* C7: the records returned are in arrival order: the result is a          *)
(* subsequence of the concatenation of the fetched pages.                  *)
(***************************************************************************)
C7_ResultInArrivalOrder ==
    /\ IsSubSeq(collected, AllPages)
    /\ result # None => IsSubSeq(result[1], AllPages)

\* a result of records from two pages, with a record left out between them
C7_Witness ==
    /\ result # None
    /\ Len(reqs) >= 2
    /\ Len(result[1]) >= 2
    /\ Len(result[1]) < Len(AllPages)
    /\ \E a \in Range(result[1]) : a \in Range(reqs[1].page)
    /\ \E a \in Range(result[1]) : a \in Range(reqs[2].page)


(***************************************************************************)
(* Vocabulary of the properties of get_activities_in_range                 *)
(***************************************************************************)
\* get_activities_in_range has been called
Called == start_date # None /\ end_date # None

\* both arguments mean a calendar date
BothDates == Called /\ start_date[1].denotes # None /\ end_date[1].denotes # None

StartMeant == start_date[1].denotes[1]
EndMeant == end_date[1].denotes[1]

\* nothing outside the process was touched: no session file access, no
\* login, no page request
NoExternalAccess == events = <<>> /\ reqs = <<>>

LoginAttempted ==
    \E i \in 1..Len(events) : events[i].op \in {"login", "login_saved"}

\* restoring the cached session failed at some step
RestoreFailed ==
    \E i \in 1..Len(events) :
        /\ events[i].op \in {"read_session", "parse_session", "login_saved"}
        /\ events[i].outcome # "ok"

FreshLoginOutcome(o) ==
    \E i \in 1..Len(events) : events[i].op = "login" /\ events[i].outcome = o

(***************************************************************************)
(* C8: a call with start after end ends in the range validation error      *)
(* with no login, no session file access and no page request; a call with  *)
(* start = end passes validation.                                          *)
(***************************************************************************)
C8_RangeRejectedBeforeNetwork ==
    (BothDates /\ pc # "validate") =>
        /\ DateLT(EndMeant, StartMeant) =>
              /\ pc = "raised"
              /\ error = Some("ValueError:range")
              /\ NoExternalAccess
        /\ StartMeant = EndMeant =>
              /\ error # Some("ValueError:range")
              /\ start_date_iso = isoformat(StartMeant)
              /\ end_date_iso = start_date_iso

\* 10 January .. 9 January rejected while a session file was there to read
C8_Witness ==
    /\ BothDates
    /\ DateLT(EndMeant, StartMeant)
    /\ pc = "raised"
    /\ session_file # None
    /\ sessionFile = "valid"
    /\ page_size = 0

(***************************************************************************)
(* C9: a call with page_size outside (0, 200] makes no login and no page   *)
(* request.                                                                *)
(***************************************************************************)
C9_BadPageSizeNoNetwork ==
    (Called /\ (page_size <= 0 \/ page_size > 200)) =>
        ~LoginAttempted /\ reqs = <<>>

(***************************************************************************)
(* C10: once restoring the cached session has failed, the failure is not   *)
(* raised to the caller: a fresh login follows, and if that login succeeds *)
(* a handle is returned.                                                   *)
(***************************************************************************)
C10_RestoreFailureFallsThrough ==
    RestoreFailed =>
        /\ pc = "login" \/ \E o \in LoginOutcomes : FreshLoginOutcome(o)
        /\ FreshLoginOutcome("ok") => api = Some("fresh")


\* the persistence block of init_api was entered
PersistAttempted ==
    \E i \in 1..Len(events) : events[i].op = "session_data"

\* the persistence block failed at some step
PersistFailed ==
    \E i \in 1..Len(events) :
        /\ events[i].op \in {"session_data", "dump_session", "write_session"}
        /\ events[i].outcome # "ok"

C12_LoginFailureFatal ==
    \A o \in LoginOutcomes \ {"ok"} :
        FreshLoginOutcome(o) =>
            /\ pc = "raised"
            /\ error = Some(LoginFailure(o))
            /\ error[1] \notin LoginOutcomes
            /\ api = None
            /\ reqs = <<>>
            /\ result = None

\* the provider rate-limited the fresh login after a cached session was
\* found corrupt
C12_Witness ==
    /\ FreshLoginOutcome("GarminConnectTooManyRequestsError")
    /\ RestoreFailed
    /\ pc = "raised"


(***************************************************************************)
(* Vocabulary of the properties on summaries                               *)
(***************************************************************************)
\* ApplyParse has built a typed record for every input record
Parsed == pc = "parsed" /\ summaries # None

\* the sport key of a summary: the resolved key, 'unknown' when there is
\* none, trimmed and lowercased
SportKey(a) == lower(strip(StrOr(_get_type_key(a), str_unknown)))

IsTrimmedLower(text) == text # <<>> /\ strip(text) = text /\ lower(text) = text

\* the text spells a number: an optional sign, digits, at most one point
IsNumberText(text) ==
    LET t == strip(text)
        body == IF t # <<>> /\ Head(t) \in {43, 45} THEN Tail(t) ELSE t
    IN  /\ \E i \in 1..Len(body) : IsDigitChar(body[i])
        /\ \A i \in 1..Len(body) : IsDigitChar(body[i]) \/ body[i] = 46
        /\ Cardinality({i \in 1..Len(body) : body[i] = 46}) <= 1

\* activityId is missing or is not a number
IdMissingOrNotNumeric(v) ==
    \/ v.t \in {"absent", "none", "list"}
    \/ v.t = "str" /\ ~IsNumberText(v.s)

\* the items of two dicts are the same
SameItems(a, b) == [a EXCEPT !.obj = 0] = [b EXCEPT !.obj = 0]

(***************************************************************************)
(* C13: every typed record parse_activity_summary builds has a type_key    *)
(* that is non-empty, trimmed and lowercase, 'unknown' for a record        *)
(* without activityType; the bare string "CYCLING" gives a cycling record  *)
(* with type_key "cycling".                                                *)
(***************************************************************************)
C13_TypeKeyNormalized ==
    Parsed =>
        \A i \in 1..Len(data) :
            /\ IsTrimmedLower(summaries[1][i].type_key)
            /\ data[i].activityType = Absent => summaries[1][i].type_key = str_unknown
            /\ data[i].activityType = PyStr(txt_CYCLING) =>
                  /\ summaries[1][i].variant = "CyclingActivitySummary"
                  /\ summaries[1][i].type_key = str_cycling

(***************************************************************************)
(* C14: the variant of every typed record is the one _TYPE_MAP assigns to  *)
(* the record's own type_key, and the generic one when type_key is not a   *)
(* key of the table.                                                       *)
(***************************************************************************)
C14_VariantOfOwnTypeKey ==
    Parsed =>
        \A i \in 1..Len(data) :
            summaries[1][i].variant = TypeMapGet(summaries[1][i].type_key)

(***************************************************************************)
(* C15: parsing a record whose activityId is missing or is not a number    *)
(* fails with an error, whatever its variant: no typed record comes out,   *)
(* in particular none with a null or zero activity_id.                     *)
(***************************************************************************)
C15_BadActivityIdFails ==
    (pc \in {"parsed", "raised"}
        /\ \E i \in 1..Len(data) : IdMissingOrNotNumeric(data[i].activityId))
        => /\ pc = "raised"
           /\ error \in {Some("TypeError:activityId"), Some("ValueError:activityId")}
           /\ summaries = None

\* a ride whose activityId is the text "abc" was refused
C15_Witness ==
    /\ pc = "raised"
    /\ Len(data) = 1
    /\ data[1].activityId = PyStr(txt_abc)
    /\ TypeMapGet(SportKey(data[1])) = "CyclingActivitySummary"
    /\ error = Some("ValueError:activityId")

(***************************************************************************)
(* C17: _round2 rounds every int and every float to the nearest value of   *)
(* two decimals, returns a bool unchanged and returns a value of any other *)
(* type unchanged.                                                         *)
(***************************************************************************)
C17_Round2 ==
    pc = "normalized" =>
        \A i \in 1..Len(data) : \A k \in CyclingKeys :
            LET in == data[i][k]
                out == result[1][i][k]
                exact == IF in.t = "int" THEN 1000 * in.n ELSE in.n
            IN  IF in.t \in {"int", "float"}
                THEN /\ out.t = "float" /\ out.b = 0
                     /\ out.n % 10 = 0
                     /\ out.n - exact <= 5 /\ exact - out.n <= 5
                     /\ (in.n % 10 # 5 \/ in.t = "int") =>
                            (out.n - exact < 5 /\ exact - out.n < 5)
                ELSE out = in

\* True came back as True beside 45.468 rounded to 45.47
C17_Witness ==
    /\ pc = "normalized"
    /\ Len(data) = 1
    /\ data[1].distance = PyBool(TRUE)
    /\ result[1][1].distance = PyBool(TRUE)
    /\ data[1].endLatitude = PyFloat(45468, 0)
    /\ result[1][1].endLatitude = PyFloat(45470, 0)

(***************************************************************************)
(* C18: rounding is idempotent, _round2(_round2(v)) = _round2(v), and      *)
(* normalizing a record that is already normalized changes none of its     *)
(* fields.                                                                 *)
(***************************************************************************)
C18_RoundingIdempotent ==
    pc = "normalized" =>
        \A i \in 1..Len(data) :
            /\ \A k \in CyclingKeys :
                  /\ result[1][i][k] = (IF data[i][k] = Absent THEN Absent
                                        ELSE _round2(data[i][k]))
                  /\ _round2(result[1][i][k]) = result[1][i][k]
            /\ SameItems(_normalize_numeric_fields(result[1][i], CyclingKeys),
                         result[1][i])

\* 2.675, which binary holds just below the decimal, was rounded to 2.67
C18_Witness ==
    /\ pc = "normalized"
    /\ Len(data) = 1
    /\ data[1].distance = PyFloat(2675, -1)
    /\ result[1][1].distance = PyFloat(2670, 0)
    /\ data[1].endLatitude # Absent

(***************************************************************************)
(* C19: the filter keeps a record exactly when its sport key (trimmed,     *)
(* lowercased, 'unknown' when unresolved) is in the trimmed, lowercased    *)
(* allowed set, in input order; so records of unresolved type are kept     *)
(* when 'unknown' is allowed.                                              *)
(***************************************************************************)
C19_FilterBySportKey ==
    pc = "filtered" =>
        result[1] = SelectSeq(data,
                        LAMBDA a : SportKey(a) \in NormalizedTypes(activity_type[1].types))

\* what the claim takes the resolved key to be: the first of typeKey,
\* typeName, typeId present in the descriptor, the flat string, else
\* 'unknown'
FirstPresentKey(a) ==
    LET at == a.activityType
    IN  IF at.t = "dict"
        THEN IF at.typeKey # Absent THEN py_str(at.typeKey)
             ELSE IF at.typeName # Absent THEN py_str(at.typeName)
             ELSE IF at.typeId # Absent THEN py_str(at.typeId)
             ELSE str_unknown
        ELSE IF at.t = "str" THEN at.s
        ELSE str_unknown

\* the first of typeKey, typeName, typeId whose value is truthy, else the
\* value of typeId; 'unknown' when that is None or has an empty text
FirstTruthyKey(a) ==
    LET at == a.activityType
        fields == <<Get(at.typeKey), Get(at.typeName), Get(at.typeId)>>
        truthy == {j \in 1..3 : Truthy(fields[j])}
        v == IF truthy = {} THEN fields[3]
             ELSE fields[CHOOSE j \in truthy : \A h \in truthy : j <= h]
    IN  IF at.t = "dict"
        THEN IF v = PyNone \/ py_str(v) = <<>> THEN str_unknown ELSE py_str(v)
        ELSE IF at.t = "str" /\ at.s # <<>> THEN at.s
        ELSE str_unknown

(***************************************************************************)
(* C20 as stated: the sport key is the first of typeKey, typeName, typeId  *)
(* present in the descriptor, whatever its value; the flat string when     *)
(* activityType is a string; 'unknown' only when none is present.          *)
(***************************************************************************)
C20_FirstPresentWins ==
    Parsed =>
        \A i \in 1..Len(data) :
            lower(strip(summaries[1][i].type_key)) = lower(strip(FirstPresentKey(data[i])))

(***************************************************************************)
(* C20 amended: the sport key is the first of typeKey, typeName, typeId    *)
(* whose value is truthy, else the value of typeId; the flat string when   *)
(* activityType is a string; 'unknown' when that value is None or empty.   *)
(***************************************************************************)
C20_FirstTruthyWins ==
    Parsed =>
        \A i \in 1..Len(data) :
            summaries[1][i].type_key = FirstTruthyKey(data[i])

\* an empty typeKey was passed over for the typeName "Running"
C20_Witness ==
    /\ Parsed
    /\ Len(data) = 1
    /\ data[1].activityType = Descriptor(PyStr(<<>>), PyStr(txt_Running), PyInt(1))
    /\ summaries[1][1].type_key = txt_Running

\* the records the type filter of the call keeps
KeptByCall ==
    IF activity_type = None THEN result[1]
    ELSE _filter_activities_by_type(result[1], AllowedOf(activity_type[1]))

\* the records of a list whose activityId parses
WithParsedId(recs) == SelectSeq(recs, LAMBDA a : py_int(Get(a.activityId)).err = None)

(***************************************************************************)
(* C16: in get_activities_in_range a fetched record whose activityId       *)
(* cannot be parsed is skipped: the call still returns the typed records   *)
(* of the other records it kept, it does not fail as a whole.              *)
(***************************************************************************)
C16_BadRecordSkipped ==
    (Called /\ result # None /\ pc \in {"returned", "raised"}) =>
        /\ pc = "returned"
        /\ summaries # None
        /\ [k \in 1..Len(summaries[1]) |-> -summaries[1][k].raw.obj]
              = [k \in 1..Len(WithParsedId(KeptByCall)) |-> WithParsedId(KeptByCall)[k].obj]

\* the records whose startTimeLocal is a text no parser accepts while their
\* beginTimestamp is a valid number of epoch milliseconds
StringFailsEpochValid(act) ==
    /\ act.startTimeLocal.form = "garbage"
    /\ act.beginTimestamp.kind = "ms"

(***************************************************************************)
(* C21: the date of a record is the date of its local-timestamp string     *)
(* when that string parses; when the string is present but no parser       *)
(* accepts it and the epoch-milliseconds field is valid, the date is the   *)
(* UTC date of the epoch field, not 'absent'.                              *)
(***************************************************************************)
C21_EpochTriedAfterStringFailure ==
    \A i \in 1..Len(examined) :
        LET act == examined[i]
        IN  /\ act.startTimeLocal.form \in {"space19", "T19", "iso"}
                  => _parse_activity_date_local(act) = Some(act.startTimeLocal.date)
            /\ StringFailsEpochValid(act)
                  => _parse_activity_date_local(act) = Some(act.beginTimestamp.date)

(***************************************************************************)
(* C22: date extraction is total.  Whatever the timestamps of a record     *)
(* (unparseable text, overflowing or refused epoch, nan, wrong types,      *)
(* missing fields) the extraction yields a date or 'absent' and raises     *)
(* nothing, so no fetch ends with an exception of the date parsers.        *)
(***************************************************************************)
C22_DateExtractionTotal ==
    /\ \A i \in 1..Len(examined) : DateOutcome(examined[i]).err = None
    /\ pc = "raised" => error \notin {Some("OverflowError"), Some("OSError"), Some("ValueError")}

\* a fetch ran to its end over a record with an overflowing epoch and a
\* record with a text of the wrong type, and kept both as undated
C22_Witness ==
    /\ pc = "fetched"
    /\ Len(examined) = 2
    /\ examined[1].beginTimestamp.kind = "overflow"
    /\ examined[1].startTimeLocal.form = "missing"
    /\ examined[2].beginTimestamp.kind = "text"
    /\ Len(result[1]) = 2

\* out is what the claim asks of a typed field read from the raw value in:
\* None when the key is missing, the nearest float of two decimals when the
\* value is a number, the value itself otherwise
RoundedOrNoValue(in, out) ==
    LET exact == IF in.t = "int" THEN 1000 * in.n ELSE in.n
    IN  IF in = Absent THEN out = PyNone
        ELSE IF in.t \in {"int", "float"}
        THEN /\ out.t = "float" /\ out.b = 0
             /\ out.n % 10 = 0
             /\ out.n - exact <= 5 /\ exact - out.n <= 5
        ELSE out = in

(***************************************************************************)
(* C23: in every typed record each allow-listed numeric field present in   *)
(* the raw record is the raw value rounded to two decimals, and each field *)
(* missing from the raw record is None, never 0 or another number.         *)
(***************************************************************************)
C23_TypedNumbersRounded ==
    Parsed =>
        \A i \in 1..Len(data) :
            /\ RoundedOrNoValue(data[i].distance, summaries[1][i].distance)
            /\ summaries[1][i].variant = "CyclingActivitySummary"
                  => RoundedOrNoValue(data[i].endLatitude, summaries[1][i].end_latitude)

\* a ride of 10000.456 with no end latitude became 10000.46 and None
C23_Witness ==
    /\ Parsed
    /\ Len(data) = 1
    /\ data[1].distance = PyFloat(10000456, 0)
    /\ data[1].endLatitude = Absent
    /\ summaries[1][1].variant = "CyclingActivitySummary"
    /\ summaries[1][1].distance = PyFloat(10000460, 0)
    /\ summaries[1][1].end_latitude = PyNone

\* the keys of a raw record, the identity of the object apart
KeysOf(rec) == {k \in DOMAIN rec \ {"obj"} : rec[k] # Absent}

(***************************************************************************)
(* C24: the public projection of a typed record has the key 'raw' exactly  *)
(* when include_raw is true, so the default projection has none; with      *)
(* include_raw true the payload under 'raw' has every key of the original  *)
(* record, the provider fields no model reads included.                    *)
(***************************************************************************)
C24_RawOnlyOnRequest ==
    pc = "public" =>
        \A i \in 1..Len(data) :
            LET public == result[1].activities[i]
            IN  /\ "raw" \in DOMAIN public <=> result[1].include_raw = Some(TRUE)
                /\ "raw" \in DOMAIN public =>
                      /\ KeysOf(public.raw) = KeysOf(data[i])
                      /\ public.raw.ownerId = data[i].ownerId

\* two records projected with include_raw true, each with its provider field
C24_Witness ==
    /\ pc = "public"
    /\ Len(data) = 2
    /\ result[1].include_raw = Some(TRUE)
    /\ \A i \in 1..2 : result[1].activities[i].raw.ownerId = PyInt(77)

\* records projected by default, without their raw payload
C24_WitnessDefault ==
    /\ pc = "public"
    /\ Len(data) = 1
    /\ result[1].include_raw = None
    /\ "raw" \notin DOMAIN result[1].activities[1]

\* a page request failed and its exception reached the caller
PageRequestFailed == pc = "raised" /\ error = Some("ProviderError:get_activities")

(***************************************************************************)
(* C25: a page request that fails is not retried, no offset being          *)
(* requested twice in one fetch; the caller gets an error that carries the *)
(* offset and the page size of the failed request, and no partial result.  *)
(***************************************************************************)
C25_FailedRequestSurfaced ==
    /\ \A i, j \in 1..Len(reqs) : reqs[i].offset = reqs[j].offset => i = j
    /\ PageRequestFailed =>
          /\ \A i \in 1..Len(reqs) : reqs[i].offset # offset
          /\ result = None
          /\ RequestAttached(offset, page_size) = Some(<<offset, page_size>>)

\* the parts of C25 the code keeps: no retry and no partial result
C25_NoRetryNoPartialResult ==
    /\ \A i, j \in 1..Len(reqs) : reqs[i].offset = reqs[j].offset => i = j
    /\ PageRequestFailed =>
          /\ \A i \in 1..Len(reqs) : reqs[i].offset # offset
          /\ result = None

\* the dicts the provider holds for the details of activity id: the payload
\* and the dict under its summaryDTO
ProviderDicts(id) ==
    LET details == DetailsStore[id]
    IN  IF details.t # "dict" THEN {}
        ELSE {details} \cup (IF details.summaryDTO.t = "dict" THEN {details.summaryDTO}
                             ELSE {})

\* rec is a copy, or it is the provider's object of its identity with the
\* items the provider gave it
Untouched(rec, originals) ==
    rec.obj > 0 => \E o \in originals : rec = o

\* every record of a list is untouched
AllUntouched(recs) ==
    \A i \in 1..Len(recs) : Untouched(recs[i], {data[j] : j \in 1..Len(data)})

(***************************************************************************)
(* C26: no raw record is mutated after it is received.  Whatever the       *)
(* range fetcher, the type filter, parse_activity_summary and              *)
(* get_activity_details hold or return, each dict in it that is an object  *)
(* of the provider has the items the provider gave it: rounded values are  *)
(* found in copies only.                                                   *)
(***************************************************************************)
C26_RawNeverMutated ==
    /\ AllUntouched(batch_list) /\ AllUntouched(collected) /\ AllUntouched(examined)
    /\ (activity_id = None /\ result # None) => AllUntouched(result[1])
    /\ summaries # None =>
          AllUntouched([i \in 1..Len(summaries[1]) |-> summaries[1][i].raw])
    /\ pc = "details_returned" =>
          LET out == result[1]
              originals == ProviderDicts(activity_id[1])
          IN  IF "raw" \in DOMAIN out THEN out.raw = DetailsStore[activity_id[1]]
              ELSE /\ Untouched(out, originals)
                   /\ out.summaryDTO.t = "dict" => Untouched(out.summaryDTO, originals)

\* details came back with 10000.46 under summaryDTO, in copies of the payload
\* and of its summaryDTO
C26_Witness ==
    /\ pc = "details_returned"
    /\ activity_id = Some(6)
    /\ DetailsStore[6].summaryDTO.distance = PyFloat(10000456, 0)
    /\ result[1].summaryDTO.distance = PyFloat(10000460, 0)
    /\ result[1].obj < 0
    /\ result[1].summaryDTO.obj < 0

\* the local date of the record is after the end of the range
TooNew(act) ==
    /\ _parse_activity_date_local(act) # None
    /\ DateLT(end_d, _parse_activity_date_local(act)[1])

\* the for loop is about to examine a record that is too new
AtTooNewRecord == pc = "scan" /\ idx <= Len(batch_list) /\ TooNew(batch_list[idx])

(***************************************************************************)
(* C27: a record dated after endDate is skipped and does not stop the      *)
(* fetch.  Examining it adds nothing to the result and moves on to the     *)
(* next record of the page, and a fetch whose last examined record was too *)
(* new has ended only because the page was short or empty or max_pages was *)
(* reached.                                                                *)
(***************************************************************************)
C27_TooNewSkippedNotStop ==
    /\ [][AtTooNewRecord =>
             /\ collected' = collected
             /\ pc' = "scan" /\ idx' = idx + 1
             /\ batch_list' = batch_list /\ result' = None]_vars
    /\ []((pc = "fetched" /\ examined # <<>> /\ TooNew(examined[Len(examined)])) =>
             \/ ShortPage(batch_list, page_size)
             \/ ReachedMaxPages(pages, max_pages))

\* the first record was too new and was left out; the fetch went on to a
\* second page and kept the record it found there
C27_Witness ==
    /\ pc = "fetched"
    /\ Len(reqs) >= 2
    /\ Len(examined) = 2
    /\ TooNew(examined[1])
    /\ result = Some(<<examined[2]>>)

\* the number of records the first k page requests returned
RECURSIVE ReturnedBy(_)
ReturnedBy(k) == IF k = 0 THEN 0 ELSE ReturnedBy(k - 1) + Len(reqs[k].page)

(***************************************************************************)
(* C28: within one fetch the page requests are sequential and contiguous.  *)
(* The first request has offset 0; the offset of each later request is the *)
(* number of records all the pages before it returned; a request is issued *)
(* only when every record of the pages before it has been examined; so the *)
(* records requested are the provider's records from the first on, none    *)
(* twice and none left out.                                                *)
(***************************************************************************)
C28_RequestsContiguous ==
    /\ [](\A k \in 1..Len(reqs) : reqs[k].offset = ReturnedBy(k - 1))
    /\ [](AllPages = SubSeq(data, 1, Len(AllPages)))
    /\ [][reqs' # reqs => (examined = AllPages /\ reqs' = Append(reqs, reqs'[Len(reqs')]))]_vars

\* three requests, at offsets 0, 1 and 2, returned the provider's three
\* records one by one
C28_Witness ==
    /\ Len(reqs) = 3
    /\ Len(data) = 3
    /\ [k \in 1..3 |-> reqs[k].offset] = <<0, 1, 2>>
    /\ AllPages = data
    /\ examined = data

\* a record of the page is dated before the range and not after it
HasOldRecord(page) ==
    \E i \in 1..Len(page) :
        LET d == _parse_activity_date_local(page[i])
        IN  d # None /\ ~DateLT(end_d, d[1]) /\ DateLT(d[1], start_d)

\* the page requests a fetch makes from offset off on, pg pages being done,
\* as the provider data, the range, page_size and max_pages alone decide them
RECURSIVE RequestsFrom(_, _)
RequestsFrom(off, pg) ==
    LET page == get_activities(off, page_size)
        req == [offset |-> off, limit |-> page_size, page |-> page]
    IN  IF \/ page = <<>>
           \/ HasOldRecord(page)
           \/ Len(page) < page_size
           \/ (max_pages # None /\ pg + 1 >= max_pages[1])
        THEN <<req>>
        ELSE <<req>> \o RequestsFrom(off + Len(page), pg + 1)

IsPrefix(a, b) == Len(a) <= Len(b) /\ a = SubSeq(b, 1, Len(a))

\* a is b with some of its items left out, the others in their order
RECURSIVE IsSubList(_, _)
IsSubList(a, b) ==
    IF a = <<>> THEN TRUE
    ELSE IF b = <<>> THEN FALSE
    ELSE IF Head(a) = Head(b) THEN IsSubList(Tail(a), Tail(b))
    ELSE IsSubList(a, Tail(b))

(***************************************************************************)
(* C29: the type filter of get_activities_in_range has no influence on     *)
(* paging.  The page requests of a call are those the provider data, the   *)
(* range, page_size and max_pages decide, whatever activity_type is; and   *)
(* the typed records returned with a filter are a sub-list, in the same    *)
(* order, of those the same fetch gives without a filter.                  *)
(***************************************************************************)
C29_FilterLeavesPagingAlone ==
    activity_id = None =>
        /\ pc \in {"request", "scan"} => IsPrefix(reqs, RequestsFrom(0, 0))
        /\ result # None => reqs = RequestsFrom(0, 0)
        /\ (pc = "returned" /\ ParseAll(result[1]).err = None) =>
              /\ IsSubList(summaries[1], ParseAll(result[1]).obj)
              /\ activity_type = None => summaries[1] = ParseAll(result[1]).obj

\* a call with a filter made two page requests and returned one of the two
\* typed records the call without a filter returns
C29_Witness ==
    /\ pc = "returned"
    /\ activity_type # None
    /\ Len(reqs) = 2
    /\ Len(result[1]) = 2
    /\ ParseAll(result[1]).err = None
    /\ Len(summaries[1]) = 1

\* the operations init_api has done so far
OpsDone == {events[k].op : k \in 1..Len(events)}

\* the provider accepted the session restored from the file
SessionAccepted == \E k \in 1..Len(events) : events[k] = Ev("login_saved", "ok")

\* the operations that touch the session file
FileOps == {"stat_session", "read_session", "write_session"}

(***************************************************************************)
(* C30: when the session file exists and the provider accepts the saved    *)
(* session, init_api returns the handle restored from it, without a fresh  *)
(* credential login and without writing the session file; when            *)
(* session_file is None, init_api neither reads nor writes any file.       *)
(***************************************************************************)
C30_SessionReuseAndNoFile ==
    /\ SessionAccepted =>
          /\ api = Some("session")
          /\ pc \notin {"init_api", "login", "persist"}
          /\ OpsDone \cap {"login", "session_data", "dump_session", "write_session"} = {}
          /\ sessionFile = "valid"
    /\ (pc # "idle" /\ session_file = None) =>
          OpsDone \cap FileOps = {}

\* a call went through with the handle restored from the session file
C30_Witness ==
    /\ SessionAccepted
    /\ pc = "returned"
    /\ api = Some("session")
    /\ events = <<Ev("stat_session", "present"), Ev("read_session", "ok"),
                  Ev("parse_session", "ok"), Ev("login_saved", "ok")>>

\* a call without session file logged in afresh and touched no file
C30_WitnessNoFile ==
    /\ pc = "returned"
    /\ session_file = None
    /\ sessionFile = "valid"
    /\ events = <<Ev("login", "ok")>>

=============================================================================
